---- MODULE Spec2Model ----
(***************************************************************************)
(* A model of the Elixir task layer: src/src/tasks/task.js (class Task and *)
(* the Gulp closure registered by toGulp) and src/ingredients/sass.js (the *)
(* 'sass' Gulp task).                                                      *)
(*                                                                         *)
(* JavaScript runs one handler at a time, so each method call is one       *)
(* action.  A Task object lives in the heap `tasks` (in creation order);   *)
(* Elixir.tasks, the registry, holds references (heap indices).  A         *)
(* definition is a closure: what it does when evaluated (the pipeline      *)
(* helpers it calls on its task, and whether it returns or throws) is an   *)
(* input of the step that evaluates it.  The only handler that spans       *)
(* several steps is the forEach of the Gulp closure, which evaluates one   *)
(* definition per step; no other operation runs until it has finished.     *)
(***************************************************************************)
EXTENDS Integers, Sequences, FiniteSets, TLC

VARIABLES
    tasks,      \* the heap of Task objects, in construction order
    registry,   \* Elixir.tasks: references to registered Task objects
    gulp,       \* gulp.tasks: name -> which closure is registered
    config,     \* Elixir.config, Elixir.inProduction, Elixir.isRunningAllTasks, gutils.env._
    pending,    \* what is left of the forEach the Gulp closure is in
    last        \* what the last call did and returned

vars == <<tasks, registry, gulp, config, pending, last>>

(* ------------------------------ bounds -------------------------------- *)

\* The size of a state: the Task objects constructed (two each), the entries
\* of Elixir.tasks, the steps recorded and the watcher patterns, all together.
MaxSize == 7

(* ------------------------------ values -------------------------------- *)

Names == {"sass", "js"}

Helpers ==
    {"initSourceMaps", "writeSourceMaps", "autoPrefix", "minify", "concat", "saveAs"}

\* What a definition does when evaluated: the helpers it calls on its task.
Bodies ==
    {<<>>} \cup {<<h>> : h \in Helpers} \cup
    {<<"autoPrefix", "saveAs">>, <<"concat", "minify">>, <<"saveAs", "concat">>}

\* How a definition ends: it returns a value or throws.
Outcomes == {"stream", "undefined", "throw"}

\* gutils.env._ : the task names given on the command line.
Envs == {<<>>, <<"sass">>, <<"watch">>, <<"tdd">>}

\* watch(regex, category): a list of patterns (none when absent), a category
\* ("" when absent); a pattern is a path in pieces.
Regexes == {<<>>, << <<"./", "src">> >>}
Categories == {"", "tdd"}

\* ignore(path)
IgnorePaths == {<<"out">>, <<"./", "out">>}

\* recordStep(message), called directly
Messages == {"Compiling"}

RECURSIVE SumLen(_, _)
SumLen(s, field) ==
    IF s = <<>> THEN 0
    ELSE Len(IF field = "steps" THEN Head(s).steps ELSE Head(s).watchers)
         + SumLen(Tail(s), field)

Size == 2 * Len(tasks) + Len(registry) + SumLen(tasks, "steps") + SumLen(tasks, "watchers")

IsPrefix(s, t) == Len(s) <= Len(t) /\ SubSeq(t, 1, Len(s)) = s

\* `last` before any call; a call sets op, and what else it has to tell.
NoCall == [op |-> "none", task |-> 0, name |-> "", arg |-> "", result |-> "",
           runs |-> <<>>]

(* --------------------------- Elixir.tasks ------------------------------ *)

\* Elixir.tasks.byName(name): the registered tasks with that name, in order.
byName(name) == SelectSeq(registry, LAMBDA o : tasks[o].name = name)

\* Elixir.tasks.findIncompleteByName(name): those of them not complete.
findIncompleteByName(name) ==
    SelectSeq(registry, LAMBDA o : tasks[o].name = name /\ ~tasks[o].isComplete)

(* ------------------------------ Task ----------------------------------- *)

\* The heap and the registry together: what a constructor call works on.
World == [tasks |-> tasks, registry |-> registry]

\* A register() that puts the task in front (unshift for push).
register_unshift(w, o) == [w EXCEPT !.registry = <<o>> \o @]

\* register(): Elixir.tasks.push(this); return this
register(w, o) == [w EXCEPT !.registry = Append(@, o)]

\* describe(definition): this.definition = definition; return this.register()
describe(w, o, definition) ==
    register([w EXCEPT !.tasks[o].definition = definition], o)

\* constructor(name, description, paths); hasGulpTask: the object is of a
\* subclass that has a gulpTask method. catArg is not a field of the object:
\* it remembers whether watch() was called on it, and whether with a category.
NewTask(w, name, hasGulpTask, description, paths) ==
    LET o == Len(w.tasks) + 1
        t == [name |-> name, watchers |-> <<>>, isComplete |-> FALSE,
              steps |-> <<>>, hasPaths |-> paths, category |-> "undefined",
              catArg |-> "never", definition |-> "undefined"]
        w0 == [w EXCEPT !.tasks = Append(@, t)]
    IN  IF hasGulpTask THEN describe(w0, o, "gulpTask")
        ELSE IF description THEN describe(w0, o, "description")
        ELSE w0

Construct(name, hasGulpTask, description, paths) ==
    /\ pending = <<>>
    /\ LET w == NewTask(World, name, hasGulpTask, description, paths)
       IN  /\ Size + 2 + Len(w.registry) - Len(registry) <= MaxSize
           /\ tasks' = w.tasks
           /\ registry' = w.registry
    /\ last' = [NoCall EXCEPT !.op = "construct"]
    /\ UNCHANGED <<gulp, config, pending>>

\* describe(definition) called on an object that exists: it registers it (again).
Describe(o) ==
    /\ pending = <<>>
    /\ o \in DOMAIN tasks
    /\ Size < MaxSize
    /\ LET w == describe(World, o, "description")
       IN  tasks' = w.tasks /\ registry' = w.registry
    /\ last' = [NoCall EXCEPT !.op = "describe"]
    /\ UNCHANGED <<gulp, config, pending>>

\* A watch() without the default: this.category = category.
watch_noDefault(t, regex, category) ==
    [t EXCEPT !.watchers = IF regex # <<>> THEN @ \o regex ELSE @,
              !.category = IF category # "" THEN category ELSE "undefined",
              !.catArg = IF category # "" \/ @ = "given" THEN "given" ELSE "omitted"]

\* watch(regex, category); an absent regex is <<>>, an absent category is "".
\* catArg remembers whether watch() was ever called, and whether with a category.
watch(t, regex, category) ==
    [t EXCEPT !.watchers = IF regex # <<>> THEN @ \o regex ELSE @,
              !.category = IF category # "" THEN category ELSE "default",
              !.catArg = IF category # "" \/ @ = "given" THEN "given" ELSE "omitted"]

Watch(o, regex, category) ==
    /\ pending = <<>>
    /\ o \in DOMAIN tasks
    /\ Size + Len(regex) <= MaxSize
    /\ tasks' = [tasks EXCEPT ![o] = watch(@, regex, category)]
    /\ last' = [NoCall EXCEPT !.op = "watch"]
    /\ UNCHANGED <<registry, gulp, config, pending>>

\* hasWatchers()
hasWatchers(t) == Len(t.watchers) > 0

\* String.prototype.replace('././', './') on a path given as its pieces: the
\* first "./" that another "./" follows is dropped.
ReplaceDotSlash(s) ==
    LET hits == {i \in 1..(Len(s) - 1) : s[i] = "./" /\ s[i + 1] = "./"}
    IN  IF hits = {} THEN s
        ELSE LET i == CHOOSE j \in hits : \A k \in hits : j <= k
             IN  SubSeq(s, 1, i) \o SubSeq(s, i + 2, Len(s))

\* ignore(path): this.watchers.push(('!./' + path).replace('././', './'))
ignore(t, path) ==
    [t EXCEPT !.watchers = Append(@, ReplaceDotSlash(<<"!", "./">> \o path))]

Ignore(o, path) ==
    /\ pending = <<>>
    /\ o \in DOMAIN tasks
    /\ Size < MaxSize
    /\ tasks' = [tasks EXCEPT ![o] = ignore(@, path)]
    /\ last' = [NoCall EXCEPT !.op = "ignore"]
    /\ UNCHANGED <<registry, gulp, config, pending>>

\* recordStep(message)
recordStep(t, message) == [t EXCEPT !.steps = Append(@, message)]

RecordStep(o, message) ==
    /\ pending = <<>>
    /\ o \in DOMAIN tasks
    /\ Size < MaxSize
    /\ tasks' = [tasks EXCEPT ![o] = recordStep(@, message)]
    /\ last' = [NoCall EXCEPT !.op = "recordStep"]
    /\ UNCHANGED <<registry, gulp, config, pending>>

\* summary(): the steps, each with its number, one per line
summary(t) == [i \in 1..Len(t.steps) |-> <<i, t.steps[i]>>]

Summary(o) ==
    /\ pending = <<>>
    /\ o \in DOMAIN tasks
    /\ last' = [NoCall EXCEPT !.op = "summary", !.task = o, !.result = summary(tasks[o])]
    /\ UNCHANGED <<tasks, registry, gulp, config, pending>>

(* ------------------------- pipeline helpers ---------------------------- *)

\* The stage map(function () {}) that lets every file through.
PassThrough == "passthrough"

\* Each helper gives the task as it leaves it, the stage it returns, and
\* whether it threw (a read of a property of this.output, which is undefined
\* when the task was constructed without paths).
initSourceMaps(t) ==
    IF ~config.sourcemaps THEN [task |-> t, result |-> PassThrough, threw |-> FALSE]
    ELSE [task |-> t, result |-> "sourcemaps.init", threw |-> FALSE]

writeSourceMaps(t) ==
    IF ~config.sourcemaps THEN [task |-> t, result |-> PassThrough, threw |-> FALSE]
    ELSE [task |-> recordStep(t, "Writing Source Maps"),
          result |-> "sourcemaps.write", threw |-> FALSE]

autoPrefix(t) ==
    IF ~config.autoprefix THEN [task |-> t, result |-> PassThrough, threw |-> FALSE]
    ELSE [task |-> recordStep(t, "Autoprefixing CSS"),
          result |-> "autoprefixer", threw |-> FALSE]

\* A minify() that records its step before it looks at Elixir.inProduction.
minify_recordsFirst(t) ==
    IF ~config.inProduction
    THEN [task |-> recordStep(t, "Applying Minification"),
          result |-> PassThrough, threw |-> FALSE]
    ELSE [task |-> recordStep(t, "Applying Minification"),
          result |-> "minifier", threw |-> FALSE]

minify(t) ==
    IF ~config.inProduction THEN [task |-> t, result |-> PassThrough, threw |-> FALSE]
    ELSE [task |-> recordStep(t, "Applying Minification"),
          result |-> "minifier", threw |-> FALSE]

concat(t) ==
    [task |-> recordStep(t, "Concatenating Files"),
     result |-> IF t.hasPaths THEN "concat" ELSE "TypeError",
     threw |-> ~t.hasPaths]

saveAs(t) ==
    [task |-> recordStep(t, "Saving to Destination"),
     result |-> IF t.hasPaths THEN "gulp.dest" ELSE "TypeError",
     threw |-> ~t.hasPaths]

CallHelper(t, h) ==
    CASE h = "initSourceMaps" -> initSourceMaps(t)
      [] h = "writeSourceMaps" -> writeSourceMaps(t)
      [] h = "autoPrefix" -> autoPrefix(t)
      [] h = "minify" -> minify(t)
      [] h = "concat" -> concat(t)
      [] h = "saveAs" -> saveAs(t)

Helper(o, h) ==
    /\ pending = <<>>
    /\ o \in DOMAIN tasks
    /\ LET r == CallHelper(tasks[o], h)
       IN  /\ Size - Len(tasks[o].steps) + Len(r.task.steps) <= MaxSize
           /\ tasks' = [tasks EXCEPT ![o] = r.task]
           /\ last' = [NoCall EXCEPT !.op = "helper", !.task = o, !.arg = h,
                                     !.result = r.result]
    /\ UNCHANGED <<registry, gulp, config, pending>>

(* ------------------------------- run ----------------------------------- *)

\* The helpers a definition calls, in turn, until one throws.
RECURSIVE EvalBody(_, _)
EvalBody(t, body) ==
    IF body = <<>> THEN [task |-> t, threw |-> FALSE]
    ELSE LET r == CallHelper(t, Head(body))
         IN  IF r.threw THEN [task |-> r.task, threw |-> TRUE]
             ELSE EvalBody(r.task, Tail(body))

\* this.definition(Elixir.Plugins, Elixir.config): a call of undefined is a
\* TypeError; a definition throws when a helper it calls does, or by itself.
EvalDefinition(t, body, out) ==
    IF t.definition = "undefined"
    THEN [task |-> t, threw |-> TRUE, value |-> "TypeError", evals |-> 0]
    ELSE LET e == EvalBody(t, body)
         IN  [task |-> e.task, threw |-> e.threw \/ out = "throw",
              value |-> IF e.threw \/ out = "throw" THEN "throw" ELSE out,
              evals |-> 1]

\* A log() that does not look at Elixir.isRunningAllTasks.
log_always(t, message) == IF message # "" THEN "status" ELSE "task"

\* log(message): which logger is called
log(t, message) ==
    IF message # "" THEN "status"
    ELSE IF ~config.isRunningAllTasks THEN "task" ELSE "nothing"

\* A run() that returns this, as the methods around it do.
run_returnsThis(t, body, out) ==
    LET e == EvalDefinition(t, body, out)
        rec == [observedComplete |-> t.isComplete, evals |-> e.evals,
                args |-> <<"Elixir.Plugins", "Elixir.config">>,
                before |-> Len(t.steps), threw |-> e.threw, value |-> e.value,
                logged |-> FALSE]
    IN  IF e.threw THEN [task |-> e.task, rec |-> rec, returned |-> e.value]
        ELSE LET done == [e.task EXCEPT !.isComplete = TRUE]
             IN  [task |-> done,
                  rec |-> [rec EXCEPT !.logged = (log(done, "") = "task")],
                  returned |-> "this"]

\* A run() that sets isComplete before it evaluates the definition.
run_completeFirst(t, body, out) ==
    LET first == [t EXCEPT !.isComplete = TRUE]
        e == EvalDefinition(first, body, out)
        rec == [observedComplete |-> first.isComplete, evals |-> e.evals,
                args |-> <<"Elixir.Plugins", "Elixir.config">>,
                before |-> Len(t.steps), threw |-> e.threw, value |-> e.value,
                logged |-> FALSE]
    IN  IF e.threw THEN [task |-> e.task, rec |-> rec, returned |-> e.value]
        ELSE [task |-> e.task,
              rec |-> [rec EXCEPT !.logged = (log(e.task, "") = "task")],
              returned |-> e.value]

\* run(): the task as the call leaves it, and what the call did:
\*   observedComplete  this.isComplete while the definition is evaluated
\*   evals, args       how often the definition was called, and with what
\*   before            how many steps the task held when run() was called
\*   threw, value      how the definition ended, and what it returned
\*   logged            whether Elixir.log.task(this) was called
\* and what run() returned (what was thrown, when it threw).
run(t, body, out) ==
    LET e == EvalDefinition(t, body, out)
        rec == [observedComplete |-> t.isComplete, evals |-> e.evals,
                args |-> <<"Elixir.Plugins", "Elixir.config">>,
                before |-> Len(t.steps), threw |-> e.threw, value |-> e.value,
                logged |-> FALSE]
    IN  IF e.threw THEN [task |-> e.task, rec |-> rec, returned |-> e.value]
        ELSE LET done == [e.task EXCEPT !.isComplete = TRUE]
             IN  [task |-> done,
                  rec |-> [rec EXCEPT !.logged = (log(done, "") = "task")],
                  returned |-> e.value]

RunRec(o, r) == [task |-> o] @@ r.rec

Run(o, body, out) ==
    /\ pending = <<>>
    /\ o \in DOMAIN tasks
    /\ LET r == run(tasks[o], body, out)
       IN  /\ Size - Len(tasks[o].steps) + Len(r.task.steps) <= MaxSize
           /\ tasks' = [tasks EXCEPT ![o] = r.task]
           /\ last' = [NoCall EXCEPT !.op = "run", !.task = o,
                                     !.result = r.returned,
                                     !.runs = <<RunRec(o, r)>>]
    /\ UNCHANGED <<registry, gulp, config, pending>>

(* ------------------------------ toGulp --------------------------------- *)

\* A shouldRunAllTasksWithName() whose list lacks 'tdd'.
shouldRunAll_noTdd(name) ==
    {config.env[i] : i \in DOMAIN config.env} \cap {name, "watch"} # {}

\* shouldRunAllTasksWithName(name)
shouldRunAllTasksWithName(name) ==
    {config.env[i] : i \in DOMAIN config.env} \cap {name, "watch", "tdd"} # {}

\* toGulp(): nothing when gulp.tasks has the name, else gulp.task(name, closure)
toGulp(g, name) == IF g[name] # "none" THEN g ELSE [g EXCEPT ![name] = "elixir"]

ToGulp(o) ==
    /\ pending = <<>>
    /\ o \in DOMAIN tasks
    /\ gulp' = toGulp(gulp, tasks[o].name)
    /\ last' = [NoCall EXCEPT !.op = "toGulp", !.task = o, !.name = tasks[o].name,
                              !.result = "undefined"]
    /\ UNCHANGED <<tasks, registry, config, pending>>

\* The closure, when all tasks of the name are to run: forEach over byName(name).
ClosureAll(name) ==
    /\ pending = <<>>
    /\ gulp[name] = "elixir"
    /\ shouldRunAllTasksWithName(name)
    /\ pending' = byName(name)
    /\ last' = [NoCall EXCEPT !.op = "gulp", !.name = name, !.arg = "all",
                              !.result = IF byName(name) = <<>> THEN "undefined"
                                         ELSE "running"]
    /\ UNCHANGED <<tasks, registry, gulp, config>>

\* One turn of that forEach: task => task.run(). An exception ends the forEach.
ForEach(body, out) ==
    /\ pending # <<>>
    /\ LET o == Head(pending)
           r == run(tasks[o], body, out)
       IN  /\ Size - Len(tasks[o].steps) + Len(r.task.steps) <= MaxSize
           /\ tasks' = [tasks EXCEPT ![o] = r.task]
           /\ pending' = IF r.rec.threw THEN <<>> ELSE Tail(pending)
           /\ last' = [last EXCEPT !.runs = Append(@, RunRec(o, r)),
                                   !.result = IF r.rec.threw THEN r.returned
                                              ELSE IF Tail(pending) = <<>>
                                              THEN "undefined" ELSE "running"]
    /\ UNCHANGED <<registry, gulp, config>>

\* A closure that takes the last incomplete task of the name, not the first.
ClosureOne_takesLast(name, body, out) ==
    /\ pending = <<>>
    /\ gulp[name] = "elixir"
    /\ ~shouldRunAllTasksWithName(name)
    /\ LET found == findIncompleteByName(name)
       IN  IF found = <<>>
           THEN /\ last' = [NoCall EXCEPT !.op = "gulp", !.name = name,
                                          !.arg = "one", !.result = "TypeError"]
                /\ UNCHANGED tasks
           ELSE LET o == found[Len(found)]
                    r == run(tasks[o], body, out)
                IN  /\ Size - Len(tasks[o].steps) + Len(r.task.steps) <= MaxSize
                    /\ tasks' = [tasks EXCEPT ![o] = r.task]
                    /\ last' = [NoCall EXCEPT !.op = "gulp", !.name = name,
                                              !.arg = "one",
                                              !.result = r.returned,
                                              !.runs = <<RunRec(o, r)>>]
    /\ UNCHANGED <<registry, gulp, config, pending>>

\* The closure otherwise: findIncompleteByName(name)[0].run()
ClosureOne(name, body, out) ==
    /\ pending = <<>>
    /\ gulp[name] = "elixir"
    /\ ~shouldRunAllTasksWithName(name)
    /\ LET found == findIncompleteByName(name)
       IN  IF found = <<>>
           THEN /\ last' = [NoCall EXCEPT !.op = "gulp", !.name = name,
                                          !.arg = "one", !.result = "TypeError"]
                /\ UNCHANGED tasks
           ELSE LET o == found[1]
                    r == run(tasks[o], body, out)
                IN  /\ Size - Len(tasks[o].steps) + Len(r.task.steps) <= MaxSize
                    /\ tasks' = [tasks EXCEPT ![o] = r.task]
                    /\ last' = [NoCall EXCEPT !.op = "gulp", !.name = name,
                                              !.arg = "one",
                                              !.result = r.returned,
                                              !.runs = <<RunRec(o, r)>>]
    /\ UNCHANGED <<registry, gulp, config, pending>>

(* ------------------------- ingredients/sass.js ------------------------- *)

\* config.preprocessors.baseDir + sassConfig.src + sassConfig.search
SassGlob == <<"preprocessors.baseDir", "sass.src", "sass.search">>

\* A file of the stream: what has been done to it, and where it was written.
SassFile == [from |-> SassGlob, history |-> <<>>, minified |-> FALSE, dest |-> ""]

rubySass(f, style) ==
    [f EXCEPT !.history = Append(@, "compile"), !.minified = (style = "compressed")]

autoprefixer(f) == [f EXCEPT !.history = Append(@, "autoprefix")]

dest(f, output) == [f EXCEPT !.history = Append(@, "write"), !.dest = output]

notify(f) == [f EXCEPT !.history = Append(@, "notify")]

\* The pipeline of the 'sass' task. When the compiler reports an error the
\* handler notifies of it and ends the stream.
SassPipeline(fails) ==
    IF fails
    THEN [file |-> SassFile, notified |-> <<"Sass", "Compilation Failed!">>]
    ELSE [file |-> notify(dest(autoprefixer(rubySass(SassFile, "compressed")),
                               "sass.output")),
          notified |-> <<"Sass", "Compiled!">>]

\* gulp.task('sass', ...) at load time; gulp.task replaces a task of that name
LoadSass ==
    /\ pending = <<>>
    /\ gulp["sass"] # "ingredient"
    /\ gulp' = [gulp EXCEPT !["sass"] = "ingredient"]
    /\ last' = [NoCall EXCEPT !.op = "load"]
    /\ UNCHANGED <<tasks, registry, config, pending>>

SassTask(fails) ==
    /\ pending = <<>>
    /\ gulp["sass"] = "ingredient"
    /\ last' = [NoCall EXCEPT !.op = "sass", !.name = "sass",
                              !.result = SassPipeline(fails)]
    /\ UNCHANGED <<tasks, registry, gulp, config, pending>>

(* --------------------------- specifications ---------------------------- *)

Configs ==
    [sourcemaps : BOOLEAN, autoprefix : BOOLEAN, inProduction : BOOLEAN,
     isRunningAllTasks : BOOLEAN, env : Envs]

InitWith(cs) ==
    /\ tasks = <<>>
    /\ registry = <<>>
    /\ gulp = [n \in Names |-> "none"]
    /\ config \in cs
    /\ pending = <<>>
    /\ last = NoCall

\* The life of Task objects: construction, registration, watchers, steps.
Init == InitWith({c \in Configs : c.env = <<>> /\ ~c.sourcemaps /\ ~c.autoprefix
                                  /\ ~c.inProduction /\ ~c.isRunningAllTasks})

Next ==
    \/ \E g, d \in BOOLEAN : Construct("sass", g, d, TRUE)
    \/ \E o \in DOMAIN tasks : Describe(o)
    \/ \E o \in DOMAIN tasks, r \in Regexes, c \in Categories : Watch(o, r, c)
    \/ \E o \in DOMAIN tasks, p \in IgnorePaths : Ignore(o, p)
    \/ \E o \in DOMAIN tasks, m \in Messages : RecordStep(o, m)
    \/ \E o \in DOMAIN tasks : Summary(o)
    \/ \E o \in DOMAIN tasks : ToGulp(o)
    \/ \E o \in DOMAIN tasks, out \in {"stream", "throw"} : Run(o, <<>>, out)

Spec == Init /\ [][Next]_vars

\* Running a task: the definition, the helpers it calls, the log.
InitRun == InitWith({c \in Configs : /\ c.env = <<>>
                                     /\ c.sourcemaps = c.autoprefix
                                     /\ c.autoprefix = c.inProduction})

NextRun ==
    \/ \E d, p \in BOOLEAN : Construct("sass", FALSE, d, p)
    \/ \E o \in DOMAIN tasks : Summary(o)
    \/ \E o \in DOMAIN tasks, b \in Bodies, out \in Outcomes : Run(o, b, out)

SpecRun == InitRun /\ [][NextRun]_vars

\* The pipeline helpers, under every setting of the features they read.
InitHelpers == InitWith({c \in Configs : c.env = <<>> /\ ~c.isRunningAllTasks})

NextHelpers ==
    \/ \E p \in BOOLEAN : Construct("sass", FALSE, TRUE, p)
    \/ \E o \in DOMAIN tasks : Watch(o, << <<"./", "src">> >>, "")
    \/ \E o \in DOMAIN tasks, h \in Helpers : Helper(o, h)
    \/ \E o \in DOMAIN tasks : Run(o, <<>>, "stream")

SpecHelpers == InitHelpers /\ [][NextHelpers]_vars

\* The Gulp tasks: the closure of toGulp and the 'sass' ingredient.
InitGulp == InitWith({c \in Configs : ~c.sourcemaps /\ ~c.autoprefix
                                      /\ ~c.inProduction})

NextGulp ==
    \/ \E n \in Names, d \in BOOLEAN : Construct(n, FALSE, d, TRUE)
    \/ \E o \in DOMAIN tasks : Describe(o)
    \/ \E o \in DOMAIN tasks : ToGulp(o)
    \/ \E n \in Names : ClosureAll(n)
    \/ \E out \in Outcomes : ForEach(<<>>, out)
    \/ \E n \in Names, out \in Outcomes : ClosureOne(n, <<>>, out)
    \/ LoadSass
    \/ \E fails \in BOOLEAN : SassTask(fails)

SpecGulp == InitGulp /\ [][NextGulp]_vars

(* ------------------------------ claims --------------------------------- *)

Range(s) == {s[i] : i \in DOMAIN s}

\* A step that evaluated run(): its record is the last of last'.runs.
NewRun == last'.runs # <<>> /\ (last' # last \/ tasks' # tasks)
NewRec == last'.runs[Len(last'.runs)]

\* C1: for a task with a definition, a call of run() evaluates the definition
\* exactly once, with Elixir.Plugins and Elixir.config; the definition is
\* evaluated while isComplete still has its old value, and isComplete is true
\* when run() returns; run() returns the value the definition returned; and
\* isComplete is false from construction until a run() has evaluated the
\* definition.
C1_Step ==
    /\ NewRun /\ tasks[NewRec.task].definition # "undefined" =>
          /\ NewRec.evals = 1
          /\ NewRec.args = <<"Elixir.Plugins", "Elixir.config">>
          /\ NewRec.observedComplete = tasks[NewRec.task].isComplete
          /\ ~NewRec.threw =>
                /\ tasks'[NewRec.task].isComplete
                /\ last'.op = "run" => last'.result = NewRec.value
    /\ \A o \in DOMAIN tasks' :
          tasks'[o].isComplete /\ (o \in DOMAIN tasks => ~tasks[o].isComplete) =>
             /\ o \in DOMAIN tasks
             /\ NewRun /\ NewRec.task = o /\ NewRec.evals = 1 /\ ~NewRec.threw
C1_RunEvaluatesOnceThenCompletes == [][C1_Step]_vars

C1_Witness ==
    /\ last.op = "run" /\ last.result = "stream"
    /\ ~last.runs[1].threw /\ ~last.runs[1].observedComplete
    /\ tasks[last.task].isComplete /\ tasks[last.task].steps # <<>>

\* C2 (as claimed): whenever the closure of toGulp() is invoked for a name
\* that a registered task has, and not all tasks of the name are to run, it
\* finds an incomplete task of that name and runs it, after whatever earlier
\* invocations.
C2_ClosureFindsPending ==
    last.op = "gulp" /\ last.arg = "one" /\ byName(last.name) # <<>> =>
       /\ last.result # "TypeError"
       /\ Len(last.runs) = 1
       /\ ~last.runs[1].observedComplete

\* C2 (amended): when not all tasks of the name are to run, the closure runs
\* the first registered task of the name, in registry order, that is
\* incomplete, and no other; when no registered task of the name is incomplete
\* it runs nothing and ends in a TypeError.
PendingAt(name) ==
    {i \in DOMAIN registry :
        tasks[registry[i]].name = name /\ ~tasks[registry[i]].isComplete}
C2_State ==
    last.op = "gulp" /\ last.arg = "one" =>
       IF last.runs = <<>>
       THEN last.result = "TypeError" /\ PendingAt(last.name) = {}
       ELSE /\ Len(last.runs) = 1
            /\ last.result # "TypeError"
            /\ ~last.runs[1].observedComplete
            /\ \E i \in DOMAIN registry :
                  /\ registry[i] = last.runs[1].task
                  /\ tasks[registry[i]].name = last.name
C2_Step ==
    last'.op = "gulp" /\ last'.arg = "one" /\ (last' # last \/ tasks' # tasks) =>
       IF PendingAt(last'.name) = {}
       THEN last'.runs = <<>> /\ tasks' = tasks
       ELSE LET i == CHOOSE j \in PendingAt(last'.name) :
                        \A k \in PendingAt(last'.name) : j <= k
            IN  /\ last'.runs # <<>>
                /\ last'.runs[1].task = registry[i]
                /\ \A o \in DOMAIN tasks : o # registry[i] => tasks'[o] = tasks[o]
C2_ClosureRunsFirstPending == []C2_State /\ [][C2_Step]_vars

C2_Witness ==
    /\ last.op = "gulp" /\ last.arg = "one" /\ Len(registry) = 2
    /\ tasks[registry[1]].name = tasks[registry[2]].name
    /\ tasks[registry[1]].isComplete
    /\ last.runs # <<>> /\ last.runs[1].task = registry[2] /\ ~last.runs[1].threw

\* C3 (as claimed): every run() that evaluates the definition and marks the
\* task complete logs the task, whatever Elixir.isRunningAllTasks is.
C3_AlwaysLogs ==
    \A i \in DOMAIN last.runs : ~last.runs[i].threw => last.runs[i].logged

\* C3 (amended): a run() that evaluates the definition and marks the task
\* complete logs the task exactly when Elixir.isRunningAllTasks is false.
C3_LogsUnlessRunningAll ==
    \A i \in DOMAIN last.runs :
       ~last.runs[i].threw =>
          (last.runs[i].logged <=> ~config.isRunningAllTasks)

C3_Witness ==
    /\ last.op = "run" /\ config.isRunningAllTasks
    /\ ~last.runs[1].threw /\ ~last.runs[1].logged
    /\ tasks[last.task].isComplete

\* C4: the registry is ordered and append-only. A constructor call with a
\* description or a gulpTask method appends the new task once, after the
\* entries there, and one with neither appends nothing; a task that was never
\* described is not in the registry; watch, ignore, recordStep, run, toGulp
\* and summary leave the registry as it is; no step removes or moves an entry.
C4_State ==
    /\ Range(registry) \subseteq DOMAIN tasks
    /\ \A o \in DOMAIN tasks :
          tasks[o].definition = "undefined" => o \notin Range(registry)
C4_Step ==
    /\ IsPrefix(registry, registry')
    /\ last'.op = "construct" /\ Len(tasks') = Len(tasks) + 1 =>
          LET o == Len(tasks')
          IN  /\ o \notin Range(registry)
              /\ registry' = IF tasks'[o].definition # "undefined"
                             THEN Append(registry, o) ELSE registry
    /\ last'.op \in {"watch", "ignore", "recordStep", "run", "toGulp", "summary"} =>
          registry' = registry
C4_RegistryAppendOnly == []C4_State /\ [][C4_Step]_vars

C4_Witness ==
    \E o, u \in DOMAIN tasks :
       /\ o < u /\ registry = <<o>> /\ tasks[o].isComplete
       /\ tasks[u].definition = "undefined" /\ tasks[u].watchers # <<>>

\* C5 (as claimed): in every state from construction on, a task that was
\* never given a category has the category "default".
C5_DefaultFromConstruction ==
    \A o \in DOMAIN tasks :
       tasks[o].catArg # "given" => tasks[o].category = "default"

\* C5 (amended): a task has no category (undefined) from construction until
\* watch() is called on it; once watch() has been called on it, and never with
\* a category, its category is "default".
C5_DefaultFromFirstWatch ==
    \A o \in DOMAIN tasks :
       /\ tasks[o].catArg = "never" => tasks[o].category = "undefined"
       /\ tasks[o].catArg = "omitted" => tasks[o].category = "default"

C5_Witness ==
    \E o, u \in DOMAIN tasks :
       /\ tasks[o].catArg = "omitted" /\ tasks[o].category = "default"
       /\ tasks[u].catArg = "never" /\ tasks[u].isComplete

\* C6 (as claimed): when run() has returned, steps holds exactly the messages
\* recorded during that run, in call order.
C6_StepsAreThoseOfTheRun ==
    last.op = "run" /\ ~last.runs[1].threw =>
       LET t == tasks[last.task]
       IN  t.steps = SubSeq(t.steps, last.runs[1].before + 1, Len(t.steps))

\* C7 (as claimed): a 'sass' run that succeeds has compiled, auto-prefixed,
\* minified and then generated a manifest, written the output and notified.
C7_SassStages ==
    last.op = "sass" /\ last.result.notified = <<"Sass", "Compiled!">> =>
       last.result.file.history =
          <<"compile", "autoprefix", "minify", "manifest", "write", "notify">>

\* C8: a helper records a step exactly when it applies its transformation:
\* writeSourceMaps iff config.sourcemaps, autoPrefix iff the autoprefix
\* setting, minify iff Elixir.inProduction, concat and saveAs always, and
\* initSourceMaps never; the step is appended to the steps there; a helper
\* whose feature is off returns the pass-through stage and changes nothing;
\* and no helper changes anything but the steps of its task.
FeatureOn(h) ==
    CASE h \in {"initSourceMaps", "writeSourceMaps"} -> config.sourcemaps
      [] h = "autoPrefix" -> config.autoprefix
      [] h = "minify" -> config.inProduction
      [] OTHER -> TRUE
C8_Step ==
    last'.op = "helper" =>
       LET o == last'.task
           h == last'.arg
       IN  /\ Len(tasks'[o].steps) = Len(tasks[o].steps)
                 + (IF FeatureOn(h) /\ h # "initSourceMaps" THEN 1 ELSE 0)
           /\ IsPrefix(tasks[o].steps, tasks'[o].steps)
           /\ tasks' = [tasks EXCEPT ![o].steps = tasks'[o].steps]
           /\ UNCHANGED <<registry, gulp, config, pending>>
           /\ ~FeatureOn(h) => last'.result = PassThrough /\ tasks' = tasks
           /\ FeatureOn(h) => last'.result # PassThrough
C8_HelpersRecordWhenApplied == [][C8_Step]_vars

C8_Witness ==
    /\ last.op = "helper" /\ last.arg = "minify" /\ last.result = PassThrough
    /\ ~config.inProduction /\ config.autoprefix
    /\ tasks[last.task].steps = <<"Autoprefixing CSS", "Saving to Destination">>
    /\ tasks[last.task].watchers # <<>>

\* C9: when the command line names the task, 'watch' or 'tdd', the closure of
\* toGulp() runs the registered tasks of that name in registry order, complete
\* or not: all of them, unless a run() throws, which ends the invocation
\* there. And toGulp() on a task whose name is a gulp task already changes
\* nothing; on another it registers the closure under the name.
RunAllWanted(name) ==
    \E i \in DOMAIN config.env : config.env[i] \in {name, "watch", "tdd"}
Ran == [i \in DOMAIN last.runs |-> last.runs[i].task]
Threw == \E i \in DOMAIN last.runs : last.runs[i].threw
C9_State ==
    last.op = "gulp" /\ RunAllWanted(last.name) =>
       /\ IsPrefix(Ran, byName(last.name))
       /\ ~Threw => Ran \o pending = byName(last.name)
       /\ Threw => pending = <<>> /\ last.runs[Len(last.runs)].threw
C9_Step ==
    last'.op = "toGulp" =>
       /\ gulp[last'.name] # "none" => UNCHANGED <<tasks, registry, gulp, config, pending>>
       /\ gulp[last'.name] = "none" => gulp' = [gulp EXCEPT ![last'.name] = "elixir"]
C9_RunsAllOfTheName == []C9_State /\ [][C9_Step]_vars

C9_Witness ==
    /\ last.op = "gulp" /\ last.arg = "all" /\ pending = <<>>
    /\ Len(last.runs) = 2 /\ Ran = byName(last.name)
    /\ last.runs[1].observedComplete /\ last.runs[2].observedComplete

\* C10: when the definition throws, run() does not mark the task complete and
\* logs nothing: isComplete keeps its value, so that a registered task whose
\* run failed while it was incomplete is still among the incomplete tasks of
\* its name; and no step sets an isComplete that is true back to false.
C10_Step ==
    /\ \A o \in DOMAIN tasks : tasks[o].isComplete => tasks'[o].isComplete
    /\ NewRun /\ NewRec.threw =>
          LET o == NewRec.task
          IN  /\ ~NewRec.logged
              /\ tasks'[o].isComplete = tasks[o].isComplete
              /\ ~tasks[o].isComplete /\ o \in Range(registry') =>
                    o \in Range(SelectSeq(registry',
                                LAMBDA x : /\ tasks'[x].name = tasks'[o].name
                                           /\ ~tasks'[x].isComplete))
C10_ThrowLeavesIncomplete == [][C10_Step]_vars

C10_Witness ==
    /\ last.op = "gulp" /\ last.arg = "one" /\ last.result = "throw"
    /\ last.runs[1].threw /\ last.runs[1].evals = 1
    /\ findIncompleteByName(last.name)[1] = last.runs[1].task
    /\ \E o \in DOMAIN tasks : tasks[o].isComplete

====
